---- MODULE Spec2Model ----
(***************************************************************************)
(* Model of src/script.js: the geometric sign classifier                   *)
(* (distance, isExtended, classifyLetterGesture) and the per-frame         *)
(* debounce logic of onResults together with clearTranslation.             *)
(*                                                                         *)
(* Coordinates are integers: one unit is 1/UnitsPerOne of a normalized     *)
(* coordinate.  Math.sqrt is monotone, so every comparison of distances    *)
(* in the source is modelled by the same comparison of squared distances   *)
(* with the factor squared (floating-point rounding is not modelled).      *)
(***************************************************************************)
EXTENDS Integers, Sequences, FiniteSets

VARIABLES
    landmarks,          \* the landmark array handed to classifyLetterGesture (<<>>: none)
    classifiedSign,     \* onResults' classifiedSign, shown in resultElement
    lastSign,           \* script.js:22
    stabilityCount,     \* script.js:23
    currentTranslation, \* script.js:21, as a sequence of characters
    statusText,         \* statusElement.textContent, as <<kind, sign>>
    error,              \* outcome of the last handler call: "none" or "TypeError"
    calls,              \* history: handler calls since start / clearTranslation (saturating)
    run,                \* history: trailing frames that observed classifiedSign (saturating)
    commitsInRun,       \* history: commits made during the current unbroken run (saturating)
    sinceCommit,        \* history: frames of the run since its last commit (saturating)
    prevCount           \* history: stabilityCount before the last handler call

vars == <<landmarks, classifiedSign, lastSign, stabilityCount, currentTranslation,
          statusText, error, calls, run, commitsInRun, sinceCommit, prevCount>>

-----------------------------------------------------------------------------
(* Bounds of the model *)

\* units per 1.0 of a normalized coordinate (0.08 is 2 units)
UnitsPerOne == 25
\* depth coordinates of the thumb landmarks range over -ZMax..ZMax
ZMax == 1
\* frames are delivered while the transcript is shorter than this
MaxTranscript == 2
\* the history counters saturate here
MaxCount == 22

-----------------------------------------------------------------------------
(* Landmark constants, script.js:4-18 *)

WRIST == 0
THUMB_CMC == 1
THUMB_MCP == 2
THUMB_PIP == 3
THUMB_TIP == 4
INDEX_MCP == 5
INDEX_PIP == 6
INDEX_DIP == 7
INDEX_TIP == 8
MIDDLE_MCP == 9
MIDDLE_PIP == 10
MIDDLE_DIP == 11
MIDDLE_TIP == 12
RING_MCP == 13
RING_PIP == 14
RING_DIP == 15
RING_TIP == 16
PINKY_MCP == 17
PINKY_PIP == 18
PINKY_DIP == 19
PINKY_TIP == 20

THUMB == <<THUMB_CMC, THUMB_MCP, THUMB_PIP, THUMB_TIP>>
INDEX_FINGER == <<INDEX_MCP, INDEX_PIP, INDEX_DIP, INDEX_TIP>>
MIDDLE_FINGER == <<MIDDLE_MCP, MIDDLE_PIP, MIDDLE_DIP, MIDDLE_TIP>>
RING_FINGER == <<RING_MCP, RING_PIP, RING_DIP, RING_TIP>>
PINKY_FINGER == <<PINKY_MCP, PINKY_PIP, PINKY_DIP, PINKY_TIP>>

STABILITY_THRESHOLD == 20

\* the number of landmarks of a well-formed hand
NumLandmarks == 21

-----------------------------------------------------------------------------
(* Geometry *)

\* landmarks[i] of the source (0-based)
lm(lms, i) == lms[i + 1]

\* landmarks[i] is undefined in the source when i >= landmarks.length
Undefined(lms, i) == i >= Len(lms)

\* distance(p1, p2) squared
distanceSq(p1, p2) ==
    (p1.x - p2.x) * (p1.x - p2.x) + (p1.y - p2.y) * (p1.y - p2.y)
        + (p1.z - p2.z) * (p1.z - p2.z)

\* isExtended reads a property of an undefined landmark: a TypeError.
\* finger[0] is bound to mcp, finger[1] to pip, finger[3] to tip; the thumb
\* branch reads tip and mcp, the other branch pip, tip and mcp.
isExtendedThrows(lms, finger) ==
    IF finger = THUMB
    THEN Undefined(lms, finger[4]) \/ Undefined(lms, finger[1])
         \/ Undefined(lms, THUMB[1])
    ELSE Undefined(lms, finger[2]) \/ Undefined(lms, finger[4])
         \/ Undefined(lms, finger[1])

\* a plausible slip: non-strict comparison of the tip with the PIP joint
isExtendedNonStrict(lms, finger) ==
    LET mcp == lm(lms, finger[1])
        pip == lm(lms, finger[2])
        tip == lm(lms, finger[4])
    IN  IF finger = THUMB
        THEN 4 * distanceSq(lm(lms, THUMB[1]), tip)
                 > 9 * distanceSq(lm(lms, THUMB[1]), mcp)
             /\ tip.z < mcp.z
        ELSE pip.y >= tip.y /\ mcp.y > tip.y

\* isExtended(landmarks, finger); the tuples are 1-based here, so finger[1] is
\* the source's finger[0].  d1 > d2 * 1.5 is 4*d1^2 > 9*d2^2.
isExtended(lms, finger) ==
    LET mcp == lm(lms, finger[1])
        pip == lm(lms, finger[2])
        tip == lm(lms, finger[4])
    IN  IF finger = THUMB
        THEN LET isTipForward == tip.z < mcp.z
                 distFromCmcToTipSq == distanceSq(lm(lms, THUMB[1]), tip)
                 distFromCmcToMcpSq == distanceSq(lm(lms, THUMB[1]), mcp)
             IN  4 * distFromCmcToTipSq > 9 * distFromCmcToMcpSq /\ isTipForward
        ELSE LET isTipAbovePip == pip.y > tip.y
                 isTipAboveMcp == mcp.y > tip.y
             IN  isTipAbovePip /\ isTipAboveMcp

-----------------------------------------------------------------------------
(* Classifier *)

\* the value standing for a TypeError thrown out of classifyLetterGesture
Thrown == "TypeError"

\* classifyLetterGesture reads an undefined landmark (script.js:94-112)
classifyThrows(lms) ==
    \/ \E finger \in {THUMB, INDEX_FINGER, MIDDLE_FINGER, RING_FINGER, PINKY_FINGER} :
          isExtendedThrows(lms, finger)
    \/ Undefined(lms, WRIST) \/ Undefined(lms, PINKY_MCP)
    \/ Undefined(lms, INDEX_TIP) \/ Undefined(lms, PINKY_TIP)

\* classifyLetterGesture(landmarks).  Thresholds on squared distances:
\*   d < 0.08 (d in units)   is  10000*d^2 < 64*UnitsPerOne^2
\*   d < handSize * 0.25     is  16*d^2 < handSize^2
\*   d > handSize * 0.5      is  4*d^2 > handSize^2
\*   d > handSize * 0.15     is  400*d^2 > 9*handSize^2
classifyLetterGesture(lms) ==
    LET thumbExtended == isExtended(lms, THUMB)
        indexExtended == isExtended(lms, INDEX_FINGER)
        middleExtended == isExtended(lms, MIDDLE_FINGER)
        ringExtended == isExtended(lms, RING_FINGER)
        pinkyExtended == isExtended(lms, PINKY_FINGER)
        indexCurled == ~indexExtended
        middleCurled == ~middleExtended
        ringCurled == ~ringExtended
        pinkyCurled == ~pinkyExtended
        allCurled == indexCurled /\ middleCurled /\ ringCurled /\ pinkyCurled
        fourFingersExtended ==
            indexExtended /\ middleExtended /\ ringExtended /\ pinkyExtended
        handSizeSq == distanceSq(lm(lms, WRIST), lm(lms, PINKY_MCP))
        tipDistSq == distanceSq(lm(lms, INDEX_TIP), lm(lms, PINKY_TIP))
        pinchDistanceFSq == distanceSq(lm(lms, THUMB_TIP), lm(lms, INDEX_TIP))
        tuckedDistSq == distanceSq(lm(lms, THUMB_TIP), lm(lms, INDEX_MCP))
        thumbTipDistToIndexBaseSq == distanceSq(lm(lms, THUMB_TIP), lm(lms, INDEX_MCP))
    IN  IF lms = <<>> THEN "?"
        ELSE IF classifyThrows(lms) THEN Thrown
        ELSE IF thumbExtended /\ indexExtended /\ middleCurled /\ ringCurled
                /\ pinkyCurled THEN "L"
        ELSE IF 10000 * pinchDistanceFSq < 64 * UnitsPerOne * UnitsPerOne
                /\ middleExtended /\ ringExtended /\ pinkyExtended THEN "F"
        ELSE IF fourFingersExtended /\ 16 * tuckedDistSq < handSizeSq THEN "B"
        ELSE IF allCurled /\ 4 * tipDistSq > handSizeSq
                /\ 400 * thumbTipDistToIndexBaseSq > 9 * handSizeSq THEN "C"
        ELSE IF allCurled THEN "A"
        ELSE "?"

-----------------------------------------------------------------------------
(* Inputs: hands on the integer grid *)

Pt(x, y, z) == [x |-> x, y |-> y, z |-> z]

\* <<pip.y, tip.y>> of a non-thumb finger whose MCP joint is at y = 12:
\* tip above both joints; tip level with the PIP joint; tip above the PIP
\* joint but below the MCP joint
FingerPoses == {<<10, 9>>, <<10, 10>>, <<14, 13>>}

\* <<x, y>> of the thumb tip
ThumbTipXY == {<<0, 10>>, <<0, 12>>, <<-2, 12>>, <<-4, 14>>, <<-2, 16>>}

\* x of the pinky tip: tipDist is 0.3, 0.5 and 0.6 of handSize when the index
\* and pinky tips are level
PinkyTipX == {3, 5, 6}

\* a hand: wrist at (0,20,0) and pinky MCP at (6,12,0), so handSize is 10 units
MkHand(txy, tz, cz, mz, ip, mp, rp, pp, px) ==
    << Pt(0, 20, 0),
       Pt(-2, 18, cz), Pt(-3, 16, mz), Pt(-3, 14, 0), Pt(txy[1], txy[2], tz),
       Pt(0, 12, 0), Pt(0, ip[1], 0), Pt(0, ip[1], 0), Pt(0, ip[2], 0),
       Pt(2, 12, 0), Pt(2, mp[1], 0), Pt(2, mp[1], 0), Pt(2, mp[2], 0),
       Pt(4, 12, 0), Pt(4, rp[1], 0), Pt(4, rp[1], 0), Pt(4, rp[2], 0),
       Pt(6, 12, 0), Pt(6, pp[1], 0), Pt(6, pp[1], 0), Pt(px, pp[2], 0) >>

Hands ==
    { MkHand(txy, tz, cz, mz, ip, mp, rp, pp, px) :
        txy \in ThumbTipXY, tz \in -ZMax..ZMax, cz \in 0..ZMax, mz \in 0..ZMax,
        ip \in FingerPoses, mp \in FingerPoses, rp \in FingerPoses,
        pp \in FingerPoses, px \in PinkyTipX }

\* one hand for each sign, and one the classifier does not know
HandL == MkHand(<<-4, 14>>, 0, 1, 1, <<10, 9>>, <<10, 10>>, <<10, 10>>, <<10, 10>>, 6)
HandF == MkHand(<<0, 10>>, 0, 0, 0, <<10, 10>>, <<10, 9>>, <<10, 9>>, <<10, 9>>, 6)
HandB == MkHand(<<-2, 12>>, 0, 0, 0, <<10, 9>>, <<10, 9>>, <<10, 9>>, <<10, 9>>, 6)
HandC == MkHand(<<-2, 12>>, 0, 0, 0, <<10, 10>>, <<10, 10>>, <<10, 10>>, <<10, 10>>, 6)
HandA == MkHand(<<-2, 12>>, 0, 0, 0, <<10, 10>>, <<10, 10>>, <<10, 10>>, <<10, 10>>, 3)
HandU == MkHand(<<-4, 14>>, 0, 0, 0, <<10, 9>>, <<10, 10>>, <<10, 10>>, <<10, 10>>, 6)
\* the hands delivered to the frame handler
SampleHands == {HandL, HandB, HandA, HandU}

\* arrays with the wrong number of landmarks: a hand cut short, or with one more
Malformed ==
    { SubSeq(HandB, 1, n) : n \in 1..(NumLandmarks - 1) } \cup {HandB \o <<Pt(0, 0, 0)>>}

-----------------------------------------------------------------------------
(* The frame handler and the clear operation *)

Signs == {"A", "B", "C", "F", "L"}

\* a history counter, increased up to MaxCount
Sat(n) == IF n < MaxCount THEN n + 1 ELSE MaxCount

\* results.multiHandLandmarks of the frames delivered: none, one hand, or two
\* hands of which the first is used; a hand may be a malformed array (here the
\* shortest, the longest short one, and the one too long)
Frames ==
    {<<>>} \cup { <<h>> : h \in SampleHands }
           \cup { <<m>> : m \in { a \in Malformed :
                                    Len(a) \in {1, NumLandmarks - 1, NumLandmarks + 1} } }
           \cup { <<h, HandA>> : h \in {HandA, HandL} }

Init ==
    /\ landmarks = <<>>
    /\ classifiedSign = "?"
    /\ lastSign = "?"
    /\ stabilityCount = 0
    /\ currentTranslation = <<>>
    /\ statusText = <<"Starting", "">>
    /\ error = "none"
    /\ calls = 0
    /\ run = 0
    /\ commitsInRun = 0
    /\ sinceCommit = 0
    /\ prevCount = 0

\* a plausible slip: the clear operation leaves the counter as it is
clearTranslationKeepsCount ==
    /\ currentTranslation' = <<>>
    /\ lastSign' = "?"
    /\ stabilityCount' = stabilityCount
    /\ statusText' = <<"Cleared", "">>
    /\ calls' = 0
    /\ run' = 0
    /\ commitsInRun' = 0
    /\ sinceCommit' = 0
    /\ prevCount' = 0
    /\ UNCHANGED <<landmarks, classifiedSign, error>>

\* window.clearTranslation
clearTranslation ==
    /\ currentTranslation' = <<>>
    /\ lastSign' = "?"
    /\ stabilityCount' = 0
    /\ statusText' = <<"Cleared", "">>
    /\ calls' = 0
    /\ run' = 0
    /\ commitsInRun' = 0
    /\ sinceCommit' = 0
    /\ prevCount' = 0
    /\ UNCHANGED <<landmarks, classifiedSign, error>>

\* the history of a frame that observed sign s with a hand present
Observe(s) ==
    LET same == run > 0 /\ classifiedSign = s
        committed == Len(currentTranslation') > Len(currentTranslation)
    IN  /\ calls' = Sat(calls)
        /\ prevCount' = stabilityCount
        /\ run' = IF same THEN Sat(run) ELSE 1
        /\ commitsInRun' =
               IF committed
               THEN (IF same /\ commitsInRun > 0 THEN 2 ELSE 1)
               ELSE (IF same THEN commitsInRun ELSE 0)
        /\ sinceCommit' =
               IF committed THEN 0
               ELSE IF same /\ commitsInRun > 0 THEN Sat(sinceCommit) ELSE 0

\* the history of a frame that observed no sign (no hand, or the handler threw)
ObserveNothing ==
    /\ calls' = Sat(calls)
    /\ prevCount' = stabilityCount
    /\ run' = 0
    /\ commitsInRun' = 0
    /\ sinceCommit' = 0

\* the status line after the debounce logic, script.js:227-231
FinalStatus(detectedHands, text) ==
    IF detectedHands = 0 THEN <<"NoHand", "">>
    ELSE IF detectedHands > 1 THEN <<"Warning", "">>
    ELSE text

\* a plausible slip: the counter restarts at 0, not 1, after a commit
DebounceCommitResetsToZero(sign, detectedHands) ==
    IF sign # "?" /\ sign = lastSign
    THEN IF stabilityCount + 1 = STABILITY_THRESHOLD
         THEN /\ currentTranslation' = Append(currentTranslation, sign)
              /\ stabilityCount' = 0
              /\ statusText' = FinalStatus(detectedHands, <<"Committed", sign>>)
              /\ UNCHANGED lastSign
         ELSE /\ stabilityCount' = stabilityCount + 1
              /\ statusText' = FinalStatus(detectedHands, statusText)
              /\ UNCHANGED <<currentTranslation, lastSign>>
    ELSE IF sign # lastSign
    THEN /\ lastSign' = sign
         /\ stabilityCount' = 0
         /\ statusText' = FinalStatus(detectedHands, <<"Changed", sign>>)
         /\ UNCHANGED currentTranslation
    ELSE /\ statusText' = FinalStatus(detectedHands, statusText)
         /\ UNCHANGED <<currentTranslation, lastSign, stabilityCount>>

\* a plausible slip: a changed sign does not reset the counter
DebounceChangeKeepsCount(sign, detectedHands) ==
    IF sign # "?" /\ sign = lastSign
    THEN IF stabilityCount + 1 = STABILITY_THRESHOLD
         THEN /\ currentTranslation' = Append(currentTranslation, sign)
              /\ stabilityCount' = 1
              /\ statusText' = FinalStatus(detectedHands, <<"Committed", sign>>)
              /\ UNCHANGED lastSign
         ELSE /\ stabilityCount' = stabilityCount + 1
              /\ statusText' = FinalStatus(detectedHands, statusText)
              /\ UNCHANGED <<currentTranslation, lastSign>>
    ELSE IF sign # lastSign
    THEN /\ lastSign' = sign
         /\ stabilityCount' = stabilityCount
         /\ statusText' = FinalStatus(detectedHands, <<"Changed", sign>>)
         /\ UNCHANGED currentTranslation
    ELSE /\ statusText' = FinalStatus(detectedHands, statusText)
         /\ UNCHANGED <<currentTranslation, lastSign, stabilityCount>>

\* a plausible slip: a changed sign starts the counter at 1
DebounceChangeCountsOne(sign, detectedHands) ==
    IF sign # "?" /\ sign = lastSign
    THEN IF stabilityCount + 1 = STABILITY_THRESHOLD
         THEN /\ currentTranslation' = Append(currentTranslation, sign)
              /\ stabilityCount' = 1
              /\ statusText' = FinalStatus(detectedHands, <<"Committed", sign>>)
              /\ UNCHANGED lastSign
         ELSE /\ stabilityCount' = stabilityCount + 1
              /\ statusText' = FinalStatus(detectedHands, statusText)
              /\ UNCHANGED <<currentTranslation, lastSign>>
    ELSE IF sign # lastSign
    THEN /\ lastSign' = sign
         /\ stabilityCount' = 1
         /\ statusText' = FinalStatus(detectedHands, <<"Changed", sign>>)
         /\ UNCHANGED currentTranslation
    ELSE /\ statusText' = FinalStatus(detectedHands, statusText)
         /\ UNCHANGED <<currentTranslation, lastSign, stabilityCount>>

\* a plausible slip: an unknown sign is not treated as a change
DebounceUnknownIgnored(sign, detectedHands) ==
    IF sign # "?" /\ sign = lastSign
    THEN IF stabilityCount + 1 = STABILITY_THRESHOLD
         THEN /\ currentTranslation' = Append(currentTranslation, sign)
              /\ stabilityCount' = 1
              /\ statusText' = FinalStatus(detectedHands, <<"Committed", sign>>)
              /\ UNCHANGED lastSign
         ELSE /\ stabilityCount' = stabilityCount + 1
              /\ statusText' = FinalStatus(detectedHands, statusText)
              /\ UNCHANGED <<currentTranslation, lastSign>>
    ELSE IF sign # lastSign /\ sign # "?"
    THEN /\ lastSign' = sign
         /\ stabilityCount' = 0
         /\ statusText' = FinalStatus(detectedHands, <<"Changed", sign>>)
         /\ UNCHANGED currentTranslation
    ELSE /\ statusText' = FinalStatus(detectedHands, statusText)
         /\ UNCHANGED <<currentTranslation, lastSign, stabilityCount>>

\* a plausible slip: the commit assigns the sign to the transcript instead of appending it
DebounceCommitAssigns(sign, detectedHands) ==
    IF sign # "?" /\ sign = lastSign
    THEN IF stabilityCount + 1 = STABILITY_THRESHOLD
         THEN /\ currentTranslation' = <<sign>>
              /\ stabilityCount' = 1
              /\ statusText' = FinalStatus(detectedHands, <<"Committed", sign>>)
              /\ UNCHANGED lastSign
         ELSE /\ stabilityCount' = stabilityCount + 1
              /\ statusText' = FinalStatus(detectedHands, statusText)
              /\ UNCHANGED <<currentTranslation, lastSign>>
    ELSE IF sign # lastSign
    THEN /\ lastSign' = sign
         /\ stabilityCount' = 0
         /\ statusText' = FinalStatus(detectedHands, <<"Changed", sign>>)
         /\ UNCHANGED currentTranslation
    ELSE /\ statusText' = FinalStatus(detectedHands, statusText)
         /\ UNCHANGED <<currentTranslation, lastSign, stabilityCount>>

\* a plausible slip: the counter is compared with > instead of ===
DebounceCommitsPastThreshold(sign, detectedHands) ==
    IF sign # "?" /\ sign = lastSign
    THEN IF stabilityCount + 1 > STABILITY_THRESHOLD
         THEN /\ currentTranslation' = Append(currentTranslation, sign)
              /\ stabilityCount' = 1
              /\ statusText' = FinalStatus(detectedHands, <<"Committed", sign>>)
              /\ UNCHANGED lastSign
         ELSE /\ stabilityCount' = stabilityCount + 1
              /\ statusText' = FinalStatus(detectedHands, statusText)
              /\ UNCHANGED <<currentTranslation, lastSign>>
    ELSE IF sign # lastSign
    THEN /\ lastSign' = sign
         /\ stabilityCount' = 0
         /\ statusText' = FinalStatus(detectedHands, <<"Changed", sign>>)
         /\ UNCHANGED currentTranslation
    ELSE /\ statusText' = FinalStatus(detectedHands, statusText)
         /\ UNCHANGED <<currentTranslation, lastSign, stabilityCount>>

\* a plausible slip: the committed status is written on every frame that repeats the sign
DebounceStatusOutsideIf(sign, detectedHands) ==
    IF sign # "?" /\ sign = lastSign
    THEN IF stabilityCount + 1 = STABILITY_THRESHOLD
         THEN /\ currentTranslation' = Append(currentTranslation, sign)
              /\ stabilityCount' = 1
              /\ statusText' = FinalStatus(detectedHands, <<"Committed", sign>>)
              /\ UNCHANGED lastSign
         ELSE /\ stabilityCount' = stabilityCount + 1
              /\ statusText' = FinalStatus(detectedHands, <<"Committed", sign>>)
              /\ UNCHANGED <<currentTranslation, lastSign>>
    ELSE IF sign # lastSign
    THEN /\ lastSign' = sign
         /\ stabilityCount' = 0
         /\ statusText' = FinalStatus(detectedHands, <<"Changed", sign>>)
         /\ UNCHANGED currentTranslation
    ELSE /\ statusText' = FinalStatus(detectedHands, statusText)
         /\ UNCHANGED <<currentTranslation, lastSign, stabilityCount>>

\* the debounce logic of onResults for a classified hand, script.js:206-218
Debounce(sign, detectedHands) ==
    IF sign # "?" /\ sign = lastSign
    THEN IF stabilityCount + 1 = STABILITY_THRESHOLD
         THEN /\ currentTranslation' = Append(currentTranslation, sign)
              /\ stabilityCount' = 1
              /\ statusText' = FinalStatus(detectedHands, <<"Committed", sign>>)
              /\ UNCHANGED lastSign
         ELSE /\ stabilityCount' = stabilityCount + 1
              /\ statusText' = FinalStatus(detectedHands, statusText)
              /\ UNCHANGED <<currentTranslation, lastSign>>
    ELSE IF sign # lastSign
    THEN /\ lastSign' = sign
         /\ stabilityCount' = 0
         /\ statusText' = FinalStatus(detectedHands, <<"Changed", sign>>)
         /\ UNCHANGED currentTranslation
    ELSE /\ statusText' = FinalStatus(detectedHands, statusText)
         /\ UNCHANGED <<currentTranslation, lastSign, stabilityCount>>

\* onResults(results), with multi = results.multiHandLandmarks
onResults(multi) ==
    /\ Len(currentTranslation) < MaxTranscript
    /\ IF Len(multi) > 0
       THEN LET sign == classifyLetterGesture(multi[1])
            IN  /\ landmarks' = multi[1]
                /\ IF sign = Thrown
                   THEN \* the TypeError leaves the handler before any assignment
                        /\ error' = Thrown
                        /\ ObserveNothing
                        /\ UNCHANGED <<classifiedSign, lastSign, stabilityCount,
                                       currentTranslation, statusText>>
                   ELSE /\ error' = "none"
                        /\ classifiedSign' = sign
                        /\ Debounce(sign, Len(multi))
                        /\ Observe(sign)
       ELSE /\ landmarks' = <<>>
            /\ error' = "none"
            /\ classifiedSign' = "?"
            /\ lastSign' = "?"
            /\ stabilityCount' = 0
            /\ statusText' = FinalStatus(0, statusText)
            /\ ObserveNothing
            /\ UNCHANGED currentTranslation

Next ==
    \/ \E multi \in Frames : onResults(multi)
    \/ clearTranslation

Spec == Init /\ [][Next]_vars

\* a frame is delivered; the camera loop (script.js:257-265) keeps sending frames
FrameArrives == \E multi \in Frames : onResults(multi)

\* the handler with frames that keep arriving
SpecLive == Init /\ [][Next]_vars /\ WF_vars(FrameArrives)

-----------------------------------------------------------------------------
(* The classifier applied to one input *)

InitClassify ==
    /\ landmarks \in Hands \cup Malformed \cup {<<>>}
    /\ classifiedSign = "?"
    /\ lastSign = "?"
    /\ stabilityCount = 0
    /\ currentTranslation = <<>>
    /\ statusText = <<"Starting", "">>
    /\ error = "none"
    /\ calls = 0
    /\ run = 0
    /\ commitsInRun = 0
    /\ sinceCommit = 0
    /\ prevCount = 0

\* classifiedSign = classifyLetterGesture(landmarks), script.js:203
Classify ==
    /\ calls = 0
    /\ calls' = 1
    /\ LET sign == classifyLetterGesture(landmarks)
       IN  IF sign = Thrown
           THEN error' = Thrown /\ UNCHANGED classifiedSign
           ELSE error' = "none" /\ classifiedSign' = sign
    /\ UNCHANGED <<landmarks, lastSign, stabilityCount, currentTranslation,
                   statusText, run, commitsInRun, sinceCommit, prevCount>>

NextClassify == Classify

SpecClassify == InitClassify /\ [][NextClassify]_vars

-----------------------------------------------------------------------------
(* The rules of the specification, written from its section 4 *)

\* thumb: distance(cmc, tip) / distance(cmc, mcp) > 1.5 and tip.z < mcp.z
ThumbRule(lms) ==
    /\ 4 * distanceSq(lm(lms, THUMB_CMC), lm(lms, THUMB_TIP))
           > 9 * distanceSq(lm(lms, THUMB_CMC), lm(lms, THUMB_MCP))
    /\ lm(lms, THUMB_TIP).z < lm(lms, THUMB_MCP).z

\* another finger: tip.y < pip.y and tip.y < mcp.y
FingerRule(lms, mcp, pip, tip) ==
    lm(lms, tip).y < lm(lms, pip).y /\ lm(lms, tip).y < lm(lms, mcp).y

IndexRule(lms) == FingerRule(lms, INDEX_MCP, INDEX_PIP, INDEX_TIP)
MiddleRule(lms) == FingerRule(lms, MIDDLE_MCP, MIDDLE_PIP, MIDDLE_TIP)
RingRule(lms) == FingerRule(lms, RING_MCP, RING_PIP, RING_TIP)
PinkyRule(lms) == FingerRule(lms, PINKY_MCP, PINKY_PIP, PINKY_TIP)

AllCurledRule(lms) ==
    ~IndexRule(lms) /\ ~MiddleRule(lms) /\ ~RingRule(lms) /\ ~PinkyRule(lms)
FourExtendedRule(lms) ==
    IndexRule(lms) /\ MiddleRule(lms) /\ RingRule(lms) /\ PinkyRule(lms)

HandSizeSq(lms) == distanceSq(lm(lms, WRIST), lm(lms, PINKY_MCP))
TipSpreadSq(lms) == distanceSq(lm(lms, INDEX_TIP), lm(lms, PINKY_TIP))
PinchDistSq(lms) == distanceSq(lm(lms, THUMB_TIP), lm(lms, INDEX_TIP))
ThumbTuckSq(lms) == distanceSq(lm(lms, THUMB_TIP), lm(lms, INDEX_MCP))

GuardL(lms) ==
    ThumbRule(lms) /\ IndexRule(lms) /\ ~MiddleRule(lms) /\ ~RingRule(lms)
        /\ ~PinkyRule(lms)
GuardF(lms) ==
    /\ 10000 * PinchDistSq(lms) < 64 * UnitsPerOne * UnitsPerOne
    /\ MiddleRule(lms) /\ RingRule(lms) /\ PinkyRule(lms)
GuardB(lms) == FourExtendedRule(lms) /\ 16 * ThumbTuckSq(lms) < HandSizeSq(lms)
GuardC(lms) ==
    /\ AllCurledRule(lms)
    /\ 4 * TipSpreadSq(lms) > HandSizeSq(lms)
    /\ 400 * ThumbTuckSq(lms) > 9 * HandSizeSq(lms)
GuardA(lms) == AllCurledRule(lms)

\* the symbol of the first rule, in the order L, F, B, C, A, whose guard holds
FirstMatch(lms) ==
    IF GuardL(lms) THEN "L"
    ELSE IF GuardF(lms) THEN "F"
    ELSE IF GuardB(lms) THEN "B"
    ELSE IF GuardC(lms) THEN "C"
    ELSE IF GuardA(lms) THEN "A"
    ELSE "?"

\* the classifier has been applied to a well-formed hand
ClassifiedHand == calls = 1 /\ Len(landmarks) = NumLandmarks

-----------------------------------------------------------------------------
(* Steps of the tracker, read off the history variables *)

\* the step handled a frame (clearTranslation sets calls to 0)
FrameStep == calls' > 0
\* the step handled a frame and the handler ran to its end
UpdateStep == FrameStep /\ error' = "none"
\* the step appended a character to the transcript
CommitStep == Len(currentTranslation') > Len(currentTranslation)

-----------------------------------------------------------------------------
(* Claims *)

\* C1: from the initial or a freshly cleared state, 20 consecutive frames of
\* the same sign commit exactly once, on the 20th frame and not before: while
\* every frame so far observed the same sign, the transcript is empty through
\* frame 19 and holds exactly that sign after frame 20.
C1_CommitOnTwentiethFrame ==
    (calls = run /\ run >= 1 /\ classifiedSign \in Signs) =>
        /\ (calls < STABILITY_THRESHOLD => currentTranslation = <<>>)
        /\ (calls = STABILITY_THRESHOLD => currentTranslation = <<classifiedSign>>)

\* C2 (as claimed): during an unbroken run of frames observing one sign the
\* sign is committed at most once.
C2_HoldCommitsOnce == commitsInRun <= 1

\* C2 (amended): once a sign has been committed, a frame that continues the
\* unbroken run commits again exactly when 18 frames of the run have passed
\* since the last commit, so the hold commits again on every 19th frame and
\* never sooner.
C2_HoldRecommitsOnNineteenth ==
    [][(run' >= 2 /\ commitsInRun >= 1) =>
          (CommitStep <=> sinceCommit = STABILITY_THRESHOLD - 2)]_vars

\* C2 witness: a second commit of the same sign within one unbroken run
C2_Witness ==
    /\ commitsInRun = 2
    /\ Len(currentTranslation) = 2
    /\ currentTranslation[1] = currentTranslation[2]
    /\ sinceCommit = 0

\* C3: isExtended(hand, THUMB) holds exactly when distance(cmc, tip) >
\* 1.5 * distance(cmc, mcp) and tip.z < mcp.z, with cmc, mcp and tip the
\* landmarks 1, 2 and 4.
C3_ThumbExtendedRule ==
    ClassifiedHand => (isExtended(landmarks, THUMB) <=> ThumbRule(landmarks))

\* C4: a hand whose thumb and index are extended by the rules of section 4.1
\* and whose middle, ring and pinky are not is classified L.
C4_ThumbIndexGivesL ==
    (ClassifiedHand /\ GuardL(landmarks)) => classifiedSign = "L"

\* C5: the result is the symbol of the first rule, in the order L, F, B, C, A,
\* whose guard holds, and Unknown if none holds.
C5_FirstMatchingRuleWins ==
    ClassifiedHand => classifiedSign = FirstMatch(landmarks)

\* C6: a hand whose four non-thumb fingers are all curled is classified C when
\* tipSpread > 0.5 * handSize and thumbTuck > 0.15 * handSize, and A otherwise.
C6_AllCurledGivesCOrA ==
    (ClassifiedHand /\ AllCurledRule(landmarks)) =>
        classifiedSign =
            IF 4 * TipSpreadSq(landmarks) > HandSizeSq(landmarks)
               /\ 400 * ThumbTuckSq(landmarks) > 9 * HandSizeSq(landmarks)
            THEN "C" ELSE "A"

\* C6 witness: all four fingers curled, tipSpread = 0.6 * handSize and
\* thumbTuck = 0.2 * handSize, classified C
C6_Witness ==
    /\ ClassifiedHand
    /\ landmarks = HandC
    /\ 25 * TipSpreadSq(landmarks) = 9 * HandSizeSq(landmarks)
    /\ 25 * ThumbTuckSq(landmarks) = HandSizeSq(landmarks)
    /\ classifiedSign = "C"

\* C7: after a frame whose landmark array does not have 21 entries the handler
\* has completed without an error, the sign shown is Unknown and the tracker
\* is in the state an Unknown observation leaves.
C7_MalformedYieldsUnknown ==
    (calls > 0 /\ Len(landmarks) # NumLandmarks) =>
        /\ error = "none"
        /\ classifiedSign = "?"
        /\ lastSign = "?"
        /\ stabilityCount = 0

\* C8: when the first 19 frames since the initial or cleared state observed
\* one sign and the 20th observes a different symbol, nothing has been
\* committed before or by that frame, and it leaves stabilityCount = 0 and
\* lastSign equal to the new symbol.
C8_NineteenThenDifferent ==
    [][(/\ calls = STABILITY_THRESHOLD - 1
        /\ run = STABILITY_THRESHOLD - 1
        /\ classifiedSign \in Signs
        /\ UpdateStep
        /\ classifiedSign' # classifiedSign) =>
          (/\ currentTranslation = <<>>
           /\ currentTranslation' = <<>>
           /\ stabilityCount' = 0
           /\ lastSign' = classifiedSign')]_vars

\* C8 witness: the 20th frame has just changed the sign after 19 equal frames
\* (the counter stood at 18 before it)
C8_Witness ==
    /\ calls = STABILITY_THRESHOLD
    /\ run = 1
    /\ prevCount = STABILITY_THRESHOLD - 2
    /\ classifiedSign \in Signs
    /\ lastSign = classifiedSign
    /\ stabilityCount = 0
    /\ currentTranslation = <<>>

\* C9: a frame whose observed symbol is Unknown (a hand classified Unknown,
\* or no hand) leaves stabilityCount = 0 and lastSign = Unknown and appends
\* nothing to the transcript, whatever the streak before it.
C9_UnknownResets ==
    [][(UpdateStep /\ classifiedSign' = "?") =>
          (/\ stabilityCount' = 0
           /\ lastSign' = "?"
           /\ currentTranslation' = currentTranslation)]_vars

\* C9 witness: a hand classified Unknown has just ended a streak one frame
\* short of a commit
C9_Witness ==
    /\ landmarks = HandU
    /\ classifiedSign = "?"
    /\ prevCount = STABILITY_THRESHOLD - 1
    /\ stabilityCount = 0
    /\ lastSign = "?"

\* C10: a step that changes lastSign leaves stabilityCount = 0 and appends
\* nothing; a frame whose observed sign is not Unknown and differs from
\* lastSign sets lastSign to it and stabilityCount to 0.
C10_ChangeResetsCount ==
    [][/\ (lastSign' # lastSign) => (stabilityCount' = 0 /\ ~CommitStep)
       /\ (UpdateStep /\ classifiedSign' \in Signs /\ classifiedSign' # lastSign) =>
              (lastSign' = classifiedSign' /\ stabilityCount' = 0)]_vars

\* C10 witness: a frame has just replaced one sign by another in the middle
\* of a streak
C10_Witness ==
    /\ calls > 0
    /\ error = "none"
    /\ classifiedSign \in Signs
    /\ lastSign = classifiedSign
    /\ run = 1
    /\ prevCount > 0
    /\ stabilityCount = 0

\* the step is a call of clearTranslation that changed the state
ResetStep == calls' = 0
\* the state a call of clearTranslation has just left
AfterReset == calls = 0 /\ statusText = <<"Cleared", "">>

\* C11: a frame leaves the transcript unchanged or appends exactly one
\* character to its end, and the transcript gets shorter only in a step of
\* clearTranslation.
C11_TranscriptGrowsByCommits ==
    [][/\ FrameStep =>
            \/ currentTranslation' = currentTranslation
            \/ \E c \in Signs : currentTranslation' = Append(currentTranslation, c)
       /\ (Len(currentTranslation') < Len(currentTranslation)) => ResetStep]_vars

\* C11 witness: a second character has just been appended after another one
C11_Witness ==
    /\ Len(currentTranslation) = 2
    /\ currentTranslation[1] # currentTranslation[2]
    /\ sinceCommit = 0
    /\ commitsInRun = 1
    /\ statusText = <<"Committed", currentTranslation[2]>>

\* C12: clearTranslation leaves the transcript empty, lastSign = Unknown and
\* stabilityCount = 0 from every state, and a second call right after it
\* changes nothing.
C12_ResetClearsAndIsIdempotent ==
    /\ [][ResetStep =>
             (/\ currentTranslation' = <<>>
              /\ lastSign' = "?"
              /\ stabilityCount' = 0)]_vars
    /\ [](AfterReset => ~ENABLED (clearTranslation /\ vars' # vars))

\* C12 witness: the transcript has been cleared after a frame that observed a
\* sign (lastSign was that sign when clearTranslation was called)
C12_Witness ==
    /\ AfterReset
    /\ classifiedSign \in Signs
    /\ error = "none"
    /\ lastSign = "?"
    /\ currentTranslation = <<>>

\* C13: a frame commits exactly when its sign is not Unknown, equals lastSign
\* and stabilityCount + 1 = STABILITY_THRESHOLD; that frame appends the sign,
\* sets stabilityCount to 1 and leaves lastSign; no other step commits.
C13_CommitExactlyAtThreshold ==
    [][/\ CommitStep => UpdateStep
       /\ UpdateStep =>
            (CommitStep <=>
                (/\ classifiedSign' \in Signs
                 /\ classifiedSign' = lastSign
                 /\ stabilityCount + 1 = STABILITY_THRESHOLD))
       /\ CommitStep =>
            (/\ currentTranslation' = Append(currentTranslation, classifiedSign')
             /\ stabilityCount' = 1
             /\ lastSign' = lastSign)]_vars

\* C13 witness: a commit has just happened with the counter at 19 before it
C13_Witness ==
    /\ prevCount = STABILITY_THRESHOLD - 1
    /\ stabilityCount = 1
    /\ Len(currentTranslation) >= 1
    /\ currentTranslation[Len(currentTranslation)] = lastSign
    /\ classifiedSign = lastSign
    /\ sinceCommit = 0
    /\ commitsInRun >= 1

\* the step handled a frame whose sign repeats lastSign without reaching the
\* threshold
HoldStep ==
    /\ UpdateStep
    /\ classifiedSign' \in Signs
    /\ classifiedSign' = lastSign
    /\ stabilityCount + 1 # STABILITY_THRESHOLD

\* C14 (as claimed): a frame that repeats lastSign below the threshold
\* reports the status Holding, neither Committed nor Changed, and commits
\* nothing; and the status after a frame is Committed only if that frame
\* appended a character.
C14_HoldingStatusReported ==
    [][/\ HoldStep => (statusText'[1] \notin {"Committed", "Changed"} /\ ~CommitStep)
       /\ (UpdateStep /\ statusText'[1] = "Committed") => CommitStep]_vars

\* C14 (amended): a frame that repeats lastSign below the threshold commits
\* nothing and writes no status of its own: the status line keeps its text,
\* or shows the multi-hand warning; and a frame sets the status line to a
\* Committed text it did not already show only if it appended a character.
C14_HoldingKeepsStatus ==
    [][/\ HoldStep =>
            (/\ ~CommitStep
             /\ statusText' \in {statusText, <<"Warning", "">>})
       /\ (UpdateStep /\ statusText'[1] = "Committed" /\ statusText' # statusText)
            => CommitStep]_vars

\* C14 witness: a frame holding the sign after its commit still shows Committed
C14_Witness ==
    /\ statusText = <<"Committed", lastSign>>
    /\ error = "none"
    /\ classifiedSign = lastSign
    /\ commitsInRun = 1
    /\ sinceCommit >= 1
    /\ stabilityCount = prevCount + 1

C16_CountBelowThreshold == stabilityCount \in 0..(STABILITY_THRESHOLD - 1)

\* C16 witness: the counter stands at its largest value, one frame before a
\* commit
C16_Witness ==
    /\ stabilityCount = STABILITY_THRESHOLD - 1
    /\ lastSign \in Signs
    /\ classifiedSign = lastSign
    /\ error = "none"

\* the tracker state (lastSign, stabilityCount, transcript) that a frame
\* without a hand can lead to from the current state
NoHandLeadsTo(l, n, t) ==
    ENABLED (/\ onResults(<<>>)
             /\ lastSign' = l /\ stabilityCount' = n /\ currentTranslation' = t)

\* the same for a frame with a hand classified Unknown
UnknownHandLeadsTo(l, n, t) ==
    ENABLED (/\ onResults(<<HandU>>)
             /\ lastSign' = l /\ stabilityCount' = n /\ currentTranslation' = t)

\* C17: from every state, a frame without a hand and a frame with a hand
\* classified Unknown lead to the same tracker state: lastSign = Unknown,
\* stabilityCount = 0 and the transcript unchanged.
C17_NoHandEqualsUnknownHand ==
    Len(currentTranslation) < MaxTranscript =>
        /\ NoHandLeadsTo("?", 0, currentTranslation)
        /\ UnknownHandLeadsTo("?", 0, currentTranslation)
        /\ \A l \in {"?", lastSign} :
             \A n \in {0, stabilityCount, stabilityCount + 1} :
               NoHandLeadsTo(l, n, currentTranslation)
                   <=> UnknownHandLeadsTo(l, n, currentTranslation)

\* C17 witness: a frame without a hand has just ended a streak
C17_Witness ==
    /\ landmarks = <<>>
    /\ calls > 0
    /\ error = "none"
    /\ prevCount > 0
    /\ lastSign = "?"
    /\ stabilityCount = 0

\* C18: an unbroken run of frames observing one sign has committed it by its
\* 21st frame, and with frames that keep arriving a held sign that has not
\* been committed leads to its commit or to the end of the run.
C18_HeldSignIsCommitted ==
    /\ []((classifiedSign \in Signs /\ run > STABILITY_THRESHOLD) => commitsInRun >= 1)
    /\ \A s \in Signs :
         (/\ classifiedSign = s /\ run >= 1 /\ commitsInRun = 0
          /\ Len(currentTranslation) < MaxTranscript)
           ~> (\/ (classifiedSign = s /\ commitsInRun >= 1)
               \/ run = 0 \/ classifiedSign # s)

\* C18 witness: the sign is committed by the 21st frame of its run
C18_Witness ==
    /\ classifiedSign \in Signs
    /\ run = STABILITY_THRESHOLD + 1
    /\ commitsInRun = 1
    /\ sinceCommit = 0

\* C19: lastSign = Unknown implies stabilityCount = 0.
C19_UnknownHasNoCount == lastSign = "?" => stabilityCount = 0

\* C19 witness: a second frame in a row with a hand classified Unknown, on
\* which the handler assigned nothing
C19_Witness ==
    /\ landmarks = HandU
    /\ classifiedSign = "?"
    /\ error = "none"
    /\ run >= 2
    /\ lastSign = "?"
    /\ stabilityCount = 0

====
